---- MODULE Spec2Model ----
(***************************************************************************)
(* Model of src/network.cpp: the web server task of the glider project.    *)
(* task_webserver registers four routes and a not-found handler, starts    *)
(* the server and then polls it forever; the handlers write the shares     *)
(* tc_state and web_calibrate and send one page each.                      *)
(***************************************************************************)
EXTENDS Integers, Sequences, FiniteSets, TLC

\* Number of requests the network stack makes ready in one run.
MaxRequests == 3

\* Request paths tried against the route table: the four registered ones,
\* the two the root page's manual-control forms submit to, and the /toggle
\* path the handlers' comments mention.
Paths == {"/", "/activate", "/deactivate", "/calibrate",
          "/set_rudder", "/set_elevator", "/toggle"}

VARIABLES
    pc,             \* position of task_webserver
    reg,            \* index of the next server.on call of task_webserver
    routes,         \* the server's request handlers, in registration order
    notFound,       \* the server's not-found handler ("" when unset)
    listening,      \* server.begin has been called
    queue,          \* requests the network stack has ready, oldest first
    arrived,        \* number of requests made ready so far
    req,            \* the request being served, or the last one served
    cur,            \* name of the handler dispatched for req
    idx,            \* index of the next statement of the handler
    tc_state,       \* share: flight control on (1) or off (0)
    web_calibrate,  \* share: calibrate/zero requested
    resp,           \* last response passed to server.send for req
    nsent,          \* number of server.send calls made for req
    wrote,          \* shares written for req, in the order written
    served,         \* requests whose handler has returned, in order
    cycle,          \* requests accepted since the last vTaskDelay
    at0             \* values of the shares when req was accepted

vars == <<pc, reg, routes, notFound, listening, queue, arrived, req, cur, idx,
          tc_state, web_calibrate, resp, nsent, wrote, served, cycle, at0>>

NoReq == [id |-> 0, uri |-> ""]
NoResp == [code |-> 0, type |-> "", content |-> <<>>]

----------------------------------------------------------------------------
(* Pages.  A String is modelled as the sequence of the fragments appended  *)
(* to it.                                                                  *)

HTML_header(a_string, page_title) ==
    a_string \o << "<!DOCTYPE html><html lang='en'><head><meta charset='utf-8'><meta name='viewport'><title>",
                   page_title,
                   "</title><style>...</style></head>" >>

a_str ==
    HTML_header(<< >>, "ESP32 Web Server Test - Airheads")
      \o << "<body><main><div id='webpage'><h1>Main Page for ME507 Glider Project</h1><h2>Control Panel</h2>",
            "<form action='/activate'>",
            "<form action='/deactivate'>",
            "<form action='/calibrate'>",
            "<h2>Manual Control</h2>",
            "<form action='/set_rudder'>",
            "<form action='/set_elevator'>",
            "<form>", "<form>", "<form>",
            "</div></main></body></html>" >>

toggle_page ==
    << "<!DOCTYPE html> <html> <head>\n",
       "<meta http-equiv='refresh' content='1; url='/'' />\n",
       "</head> <body> <p> <a href='/'>Back to main page</a></p>",
       "</body> </html>" >>

\* sin (index / 5.4321) in thousandths, index 0..19
SinMilli == << 0, 183, 360, 525, 672, 796, 893, 960, 995, 996,
               964, 899, 803, 680, 535, 371, 195, 12, -171, -349 >>

Pad3(n) == IF n < 10 THEN "00" \o ToString(n)
           ELSE IF n < 100 THEN "0" \o ToString(n) ELSE ToString(n)

\* String (x, 3): x printed with three decimal places
String3(m) ==
    LET a == IF m < 0 THEN -m ELSE m
    IN  (IF m < 0 THEN "-" ELSE "") \o ToString(a \div 1000) \o "." \o Pad3(a % 1000)

RECURSIVE csv_rows(_)
csv_rows(index) ==
    IF index >= 20 THEN << >>
    ELSE << ToString(index), ",", String3(SinMilli[index + 1]), "\n" >>
           \o csv_rows(index + 1)

csv_str == << "Time, Jumpiness\n" >> \o csv_rows(0)

----------------------------------------------------------------------------
(* Handlers: the statements each one executes, in order.                   *)

PutStmt(share, data) == [op |-> "put", share |-> share, data |-> data]
SendStmt(code, type, content) ==
    [op |-> "send", code |-> code, type |-> type, content |-> content]

handle_DocumentRoot == << SendStmt(200, "text/html", a_str) >>

\* Slip: the not-found handler also switches flight control off.
handle_NotFound_failsafe ==
    << [op |-> "put", share |-> "tc_state", data |-> 0],
       [op |-> "send", code |-> 404, type |-> "text/plain",
        content |-> << "Not found" >>] >>

handle_NotFound == << SendStmt(404, "text/plain", << "Not found" >>) >>

\* Slip: the page is built but never sent.
handle_Activate_noSend == << PutStmt("tc_state", 1) >>

handle_Activate ==
    << PutStmt("tc_state", 1), SendStmt(200, "text/html", toggle_page) >>

\* Slip: deactivating also withdraws the calibrate request.
handle_Deactivate_clears ==
    << PutStmt("tc_state", 0), PutStmt("web_calibrate", 0),
       SendStmt(200, "text/html", toggle_page) >>

handle_Deactivate ==
    << PutStmt("tc_state", 0), SendStmt(200, "text/html", toggle_page) >>

\* Slip: the send call copied from the CSV handlers.
handle_Calibrate_404 ==
    << PutStmt("web_calibrate", 1), PutStmt("tc_state", 0),
       SendStmt(404, "text/plain", toggle_page) >>

\* Slip: flight control is left as it is.
handle_Calibrate_keepsTc ==
    << PutStmt("web_calibrate", 1), SendStmt(200, "text/html", toggle_page) >>

\* Slip: the calibrate request is written as 0.
handle_Calibrate_noRequest ==
    << PutStmt("web_calibrate", 0), PutStmt("tc_state", 0),
       SendStmt(200, "text/html", toggle_page) >>

\* Slip: the two puts in the other order.
handle_Calibrate_swapped ==
    << PutStmt("tc_state", 0), PutStmt("web_calibrate", 1),
       SendStmt(200, "text/html", toggle_page) >>

handle_Calibrate ==
    << PutStmt("web_calibrate", 1), PutStmt("tc_state", 0),
       SendStmt(200, "text/html", toggle_page) >>

handle_Set_Rudder == << SendStmt(404, "text/plain", csv_str) >>

handle_Set_Elevator == << SendStmt(404, "text/plain", csv_str) >>

HandlerNames == {"handle_DocumentRoot", "handle_NotFound", "handle_Activate",
                 "handle_Deactivate", "handle_Calibrate",
                 "handle_Set_Rudder", "handle_Set_Elevator"}

Handler(name) ==
    CASE name = "handle_DocumentRoot" -> handle_DocumentRoot
      [] name = "handle_NotFound"     -> handle_NotFound
      [] name = "handle_Activate"     -> handle_Activate
      [] name = "handle_Deactivate"   -> handle_Deactivate
      [] name = "handle_Calibrate"    -> handle_Calibrate
      [] name = "handle_Set_Rudder"   -> handle_Set_Rudder
      [] name = "handle_Set_Elevator" -> handle_Set_Elevator
      [] OTHER                        -> << >>

----------------------------------------------------------------------------
(* task_webserver                                                          *)

\* Slip: the two manual-control handlers wired to the forms' paths.
Registrations_wired ==
    << [uri |-> "/",             fn |-> "handle_DocumentRoot"],
       [uri |-> "/activate",     fn |-> "handle_Activate"],
       [uri |-> "/deactivate",   fn |-> "handle_Deactivate"],
       [uri |-> "/calibrate",    fn |-> "handle_Calibrate"],
       [uri |-> "/set_rudder",   fn |-> "handle_Set_Rudder"],
       [uri |-> "/set_elevator", fn |-> "handle_Set_Elevator"] >>

\* Slip: handle_Deactivate registered under the path of handle_Activate.
Registrations_dup ==
    << [uri |-> "/",          fn |-> "handle_DocumentRoot"],
       [uri |-> "/activate",  fn |-> "handle_Activate"],
       [uri |-> "/activate",  fn |-> "handle_Deactivate"],
       [uri |-> "/calibrate", fn |-> "handle_Calibrate"] >>

\* The server.on calls of task_webserver, in order.
Registrations ==
    << [uri |-> "/",           fn |-> "handle_DocumentRoot"],
       [uri |-> "/activate",   fn |-> "handle_Activate"],
       [uri |-> "/deactivate", fn |-> "handle_Deactivate"],
       [uri |-> "/calibrate",  fn |-> "handle_Calibrate"] >>

NotFoundRegistration == "handle_NotFound"

\* The handler the server runs for a path: the first route registered for
\* it, the not-found handler when there is none.
Dispatch(uri) ==
    LET hits == {i \in 1..Len(routes) : routes[i].uri = uri}
    IN  IF hits # {}
        THEN routes[CHOOSE i \in hits : \A j \in hits : i <= j].fn
        ELSE notFound

\* The request handleClient takes from the ready ones.
NextClient(q) == Head(q)

\* Slip: the loop calls handleClient again without the delay.
AfterHandleClient_noDelay == "handleClient"

\* Where task_webserver goes when handleClient returns.
AfterHandleClient == "vTaskDelay"

Init ==
    /\ pc = "on"
    /\ reg = 1
    /\ routes = << >>
    /\ notFound = ""
    /\ listening = FALSE
    /\ queue = << >>
    /\ arrived = 0
    /\ req = NoReq
    /\ cur = ""
    /\ idx = 1
    /\ tc_state \in {0, 1}
    /\ web_calibrate \in BOOLEAN
    /\ resp = NoResp
    /\ nsent = 0
    /\ wrote = << >>
    /\ served = << >>
    /\ cycle = 0
    /\ at0 = [tc |-> tc_state, cal |-> web_calibrate]

\* server.on (uri, fn)
ServerOn ==
    /\ pc = "on"
    /\ reg <= Len(Registrations)
    /\ routes' = Append(routes, Registrations[reg])
    /\ reg' = reg + 1
    /\ UNCHANGED <<pc, notFound, listening, queue, arrived, req, cur, idx,
                   tc_state, web_calibrate, resp, nsent, wrote, served, cycle,
                   at0>>

\* server.onNotFound (handle_NotFound)
ServerOnNotFound ==
    /\ pc = "on"
    /\ reg > Len(Registrations)
    /\ notFound' = NotFoundRegistration
    /\ pc' = "begin"
    /\ UNCHANGED <<reg, routes, listening, queue, arrived, req, cur, idx,
                   tc_state, web_calibrate, resp, nsent, wrote, served, cycle,
                   at0>>

\* server.begin ()
ServerBegin ==
    /\ pc = "begin"
    /\ listening' = TRUE
    /\ pc' = "handleClient"
    /\ UNCHANGED <<reg, routes, notFound, queue, arrived, req, cur, idx,
                   tc_state, web_calibrate, resp, nsent, wrote, served, cycle,
                   at0>>

\* server.handleClient () with no request ready: returns at once.
HandleClientNone ==
    /\ pc = "handleClient"
    /\ queue = << >>
    /\ pc' = AfterHandleClient
    /\ UNCHANGED <<reg, routes, notFound, listening, queue, arrived, req, cur,
                   idx, tc_state, web_calibrate, resp, nsent, wrote, served,
                   cycle, at0>>

\* server.handleClient () with a request ready: takes it and calls the
\* handler of its path.
HandleClientRequest ==
    /\ pc = "handleClient"
    /\ queue # << >>
    /\ LET r == NextClient(queue)
       IN  /\ req' = r
           /\ queue' = SelectSeq(queue, LAMBDA x : x.id # r.id)
           /\ cur' = Dispatch(r.uri)
    /\ idx' = 1
    /\ resp' = NoResp
    /\ nsent' = 0
    /\ wrote' = << >>
    /\ cycle' = cycle + 1
    /\ at0' = [tc |-> tc_state, cal |-> web_calibrate]
    /\ pc' = "handler"
    /\ UNCHANGED <<reg, routes, notFound, listening, arrived, tc_state,
                   web_calibrate, served>>

\* share.put (data)
Put ==
    /\ pc = "handler"
    /\ idx <= Len(Handler(cur))
    /\ LET s == Handler(cur)[idx]
       IN  /\ s.op = "put"
           /\ tc_state' = IF s.share = "tc_state" THEN s.data ELSE tc_state
           /\ web_calibrate' = IF s.share = "web_calibrate" THEN (s.data # 0)
                               ELSE web_calibrate
           /\ wrote' = Append(wrote, s.share)
    /\ idx' = idx + 1
    /\ UNCHANGED <<pc, reg, routes, notFound, listening, queue, arrived, req,
                   cur, resp, nsent, served, cycle, at0>>

\* server.send (code, type, content)
Send ==
    /\ pc = "handler"
    /\ idx <= Len(Handler(cur))
    /\ LET s == Handler(cur)[idx]
       IN  /\ s.op = "send"
           /\ resp' = [code |-> s.code, type |-> s.type, content |-> s.content]
    /\ nsent' = nsent + 1
    /\ idx' = idx + 1
    /\ UNCHANGED <<pc, reg, routes, notFound, listening, queue, arrived, req,
                   cur, tc_state, web_calibrate, wrote, served, cycle, at0>>

\* The handler returns, and handleClient with it.
HandlerReturn ==
    /\ pc = "handler"
    /\ idx > Len(Handler(cur))
    /\ served' = Append(served, req)
    /\ pc' = AfterHandleClient
    /\ UNCHANGED <<reg, routes, notFound, listening, queue, arrived, req, cur,
                   idx, tc_state, web_calibrate, resp, nsent, wrote, cycle,
                   at0>>

\* vTaskDelay (500) elapses.
VTaskDelay ==
    /\ pc = "vTaskDelay"
    /\ cycle' = 0
    /\ pc' = "handleClient"
    /\ UNCHANGED <<reg, routes, notFound, listening, queue, arrived, req, cur,
                   idx, tc_state, web_calibrate, resp, nsent, wrote, served,
                   at0>>

WebServerStep ==
    \/ ServerOn
    \/ ServerOnNotFound
    \/ ServerBegin
    \/ HandleClientNone
    \/ HandleClientRequest
    \/ Put
    \/ Send
    \/ HandlerReturn
    \/ VTaskDelay

----------------------------------------------------------------------------
(* The network stack.                                                      *)

\* The network stack makes a request ready.
Arrive ==
    /\ listening
    /\ arrived < MaxRequests
    /\ \E uri \in Paths :
         queue' = Append(queue, [id |-> arrived + 1, uri |-> uri])
    /\ arrived' = arrived + 1
    /\ UNCHANGED <<pc, reg, routes, notFound, listening, req, cur, idx,
                   tc_state, web_calibrate, resp, nsent, wrote, served, cycle,
                   at0>>

Next ==
    \/ ServerOn
    \/ ServerOnNotFound
    \/ ServerBegin
    \/ HandleClientNone
    \/ HandleClientRequest
    \/ Put
    \/ Send
    \/ HandlerReturn
    \/ VTaskDelay
    \/ Arrive

Spec == Init /\ [][Next]_vars

\* The scheduler runs task_webserver again after each delay.
FairSpec == Spec /\ WF_vars(WebServerStep)

TypeOK ==
    /\ pc \in {"on", "begin", "handleClient", "handler", "vTaskDelay"}
    /\ reg \in 1..(Len(Registrations) + 1)
    /\ notFound \in HandlerNames \cup {""}
    /\ listening \in BOOLEAN
    /\ arrived \in 0..MaxRequests
    /\ cur \in HandlerNames \cup {""}
    /\ tc_state \in {0, 1}
    /\ web_calibrate \in BOOLEAN
    /\ nsent \in Nat

----------------------------------------------------------------------------
(* Properties                                                              *)

Registered == {"/", "/activate", "/deactivate", "/calibrate"}
FlagPaths == {"/activate", "/deactivate", "/calibrate"}
LoopPcs == {"handleClient", "handler", "vTaskDelay"}
Range(f) == {f[i] : i \in 1..Len(f)}

\* req has been served: its handler has returned.
Served == req # NoReq /\ pc # "handler"

\* The page sends the browser back to "/" after one second.
IsRedirectPage(content) ==
    "<meta http-equiv='refresh' content='1; url='/'' />\n" \in Range(content)

\* The page is the control panel: the title and the three control forms.
IsRootPage(content) ==
    /\ "ESP32 Web Server Test - Airheads" \in Range(content)
    /\ {"<form action='/activate'>", "<form action='/deactivate'>",
        "<form action='/calibrate'>"} \subseteq Range(content)

LastFlagRequest ==
    LET S == {i \in 1..Len(served) : served[i].uri \in FlagPaths}
    IN  IF S = {} THEN 0 ELSE CHOOSE i \in S : \A j \in S : j <= i

\* C3: when no request is in service, tc_state holds what the last served
\* request among /activate, /deactivate, /calibrate wrote: 1 for /activate,
\* 0 for /deactivate and /calibrate.
C3_LastWriteWins ==
    (pc # "handler" /\ LastFlagRequest # 0) =>
        tc_state = IF served[LastFlagRequest].uri = "/activate" THEN 1 ELSE 0

C3_Witness ==
    /\ pc # "handler"
    /\ Len(served) = 3
    /\ served[1].uri = "/activate"
    /\ served[2].uri = "/calibrate"
    /\ served[3].uri = "/"
    /\ tc_state = 0

\* C4: once a /calibrate request has been served, web_calibrate is true in
\* every later state, so a read of it by any task returns true, whatever
\* the shares held before the request.
C4_CalibrateRequested ==
    (\E i \in 1..Len(served) : served[i].uri = "/calibrate") =>
        web_calibrate = TRUE

C4_Witness ==
    /\ Served
    /\ req.uri = "/calibrate"
    /\ at0.cal = FALSE
    /\ at0.tc = 1
    /\ web_calibrate = TRUE

\* C5: a poll cycle accepts at most one request; the request in service is
\* the oldest one not yet served and requests are served in the order they
\* were made ready; a handler runs to its return before handleClient is
\* called again, and the task then waits in vTaskDelay.
C5_OneAtATimeInOrder ==
    /\ [](/\ cycle <= 1
          /\ \A i \in 1..Len(served) : served[i].id = i
          /\ \A i \in 1..Len(queue) :
                queue[i].id = Len(served) + i + (IF pc = "handler" THEN 1 ELSE 0)
          /\ pc = "handler" => req.id = Len(served) + 1
          /\ Served => req = served[Len(served)])
    /\ [][/\ pc = "handler" => pc' \in {"handler", "vTaskDelay"}
          /\ pc = "handleClient" => pc' \in {"handleClient", "handler", "vTaskDelay"}
          /\ pc = "vTaskDelay" => pc' \in {"vTaskDelay", "handleClient"}
          /\ (pc = "handler" /\ pc' = "handler") => (req' = req /\ served' = served)]_vars

C5_Witness ==
    /\ pc = "handler"
    /\ req.id = 2
    /\ Len(served) = 1
    /\ Len(queue) = 1
    /\ cycle = 1

\* The route table holds the four registered paths, once each, and the
\* not-found handler.
RouteTableComplete ==
    /\ Len(routes) = 4
    /\ {routes[i].uri : i \in 1..Len(routes)} = Registered
    /\ notFound = "handle_NotFound"

\* C6: from the first handleClient call on the route table holds exactly
\* the four distinct paths and the not-found handler; no request is in
\* service or served before that, and no step of the loop or of a handler
\* changes the table.
C6_RouteTableFixed ==
    /\ [](pc \in LoopPcs => RouteTableComplete)
    /\ []((req # NoReq \/ served # << >>) => RouteTableComplete)
    /\ [][(pc \in LoopPcs) => (routes' = routes /\ notFound' = notFound)]_vars

C6_Witness ==
    /\ pc = "handler"
    /\ Len(served) >= 1
    /\ RouteTableComplete

\* C7: the request for "/" or for an unmatched path writes no share and
\* leaves both as they were; the request for /activate or /deactivate does
\* not write web_calibrate and leaves it as it was; a served request that
\* wrote both shares is /calibrate.
C7_HandlersFrame ==
    req # NoReq =>
        /\ req.uri \notin FlagPaths =>
              (wrote = << >> /\ tc_state = at0.tc /\ web_calibrate = at0.cal)
        /\ req.uri \in {"/activate", "/deactivate"} =>
              ("web_calibrate" \notin Range(wrote) /\ web_calibrate = at0.cal)
        /\ (Served /\ req.uri \in {"/activate", "/deactivate"}) =>
              wrote = << "tc_state" >>
        /\ Range(wrote) = {"web_calibrate", "tc_state"} => req.uri = "/calibrate"

C7_Witness ==
    /\ Served
    /\ req.uri = "/activate"
    /\ at0.cal = TRUE
    /\ at0.tc = 0
    /\ tc_state = 1
    /\ web_calibrate = TRUE
    /\ Len(served) >= 2
    /\ served[1].uri = "/toggle"

\* C8: while /calibrate is in service web_calibrate is written before
\* tc_state: a task reading the shares between the two writes finds
\* web_calibrate true with tc_state as it was, and the shares written so
\* far are never tc_state alone.
C8_CalibrateWriteOrder ==
    req.uri = "/calibrate" =>
        /\ wrote \in {<< >>, << "web_calibrate" >>, << "web_calibrate", "tc_state" >>}
        /\ wrote = << "web_calibrate" >> =>
              (web_calibrate = TRUE /\ tc_state = at0.tc)
        /\ "tc_state" \in Range(wrote) => web_calibrate = TRUE

C8_Witness ==
    /\ pc = "handler"
    /\ req.uri = "/calibrate"
    /\ wrote = << "web_calibrate" >>
    /\ web_calibrate = TRUE
    /\ tc_state = 1
    /\ at0.cal = FALSE

\* C9: no step writes false over a true web_calibrate: once true it stays
\* true through every later request.
C9_CalibrateNeverCleared ==
    [][web_calibrate = TRUE => web_calibrate' = TRUE]_vars

C9_Witness ==
    /\ Served
    /\ Len(served) = 3
    /\ served[1].uri = "/calibrate"
    /\ served[2].uri = "/deactivate"
    /\ served[3].uri = "/activate"
    /\ web_calibrate = TRUE

\* C10: with task_webserver scheduled fairly, every request made ready is
\* eventually served, a served request got exactly one response and a
\* request in service at most one so far, and the loop keeps cycling
\* through handleClient and vTaskDelay.
C10_EveryRequestAnswered ==
    /\ \A id \in 1..MaxRequests :
          (\E i \in 1..Len(queue) : queue[i].id = id)
              ~> (\E i \in 1..Len(served) : served[i].id = id)
    /\ [](Served => nsent = 1)
    /\ [](pc = "handler" => nsent <= 1)
    /\ []<>(pc = "vTaskDelay")
    /\ []<>(pc = "handleClient")

C10_Witness ==
    /\ pc = "vTaskDelay"
    /\ Len(served) >= 2
    /\ queue = << >>
    /\ nsent = 1
    /\ resp # NoResp

====
